---- MODULE Spec2Model ----
(***************************************************************************)
(* Model of app.py: the Retrieval Gateway (retrieve_from_kb), the          *)
(* tool-calling orchestrator (chat_with_bedrock) and the practice /        *)
(* objective selection of the page.                                        *)
(*                                                                         *)
(* Representation.  tier, intent and query are Python str-or-None values:  *)
(* a str is a sequence of one-character strings, None is the value None_.  *)
(* Texts that are only concatenated (answers, passages, error messages)    *)
(* are TLA+ strings.  A dict is a function whose DOMAIN is its key set.    *)
(***************************************************************************)
EXTENDS Integers, Sequences, FiniteSets, TLC

\* ---------------------------------------------------------------- bounds
MaxPassages == 2        \* passages in one retrieve response
MaxBlocks == 2          \* content blocks in the first model response
MaxFinalBlocks == 2     \* content blocks in the second model response
MaxPractices == 2       \* rows of the practice table
MaxObjectives == 2      \* rows of the objective table

\* ------------------------------------------------------- Python values
None_ == <<"<None>">>

s_none == <<"n", "o", "n", "e">>
s_None == <<"N", "o", "n", "e">>
s_NONE == <<"N", "O", "N", "E">>
s_Level2 == <<"L", "e", "v", "e", "l", " ", "2">>
s_Technical == <<"T", "e", "c", "h", "n", "i", "c", "a", "l">>
s_policy == <<"p", "o", "l", "i", "c", "y">>
s_empty == <<>>
s_q1 == <<"q", "1">>
s_q2 == <<"q", "2">>

UpperLetters == <<"A", "B", "C", "D", "E", "F", "G", "H", "I", "J", "K", "L", "M",
                  "N", "O", "P", "Q", "R", "S", "T", "U", "V", "W", "X", "Y", "Z">>
LowerLetters == <<"a", "b", "c", "d", "e", "f", "g", "h", "i", "j", "k", "l", "m",
                  "n", "o", "p", "q", "r", "s", "t", "u", "v", "w", "x", "y", "z">>

\* str.lower() on one character
LowerChar(c) ==
    IF \E i \in 1..26 : UpperLetters[i] = c
    THEN LowerLetters[CHOOSE i \in 1..26 : UpperLetters[i] = c]
    ELSE c

\* a wrong lower(): the comparison is made on the value as given
Lower_asIs(s) == s

\* str.lower()
Lower(s) == [i \in 1..Len(s) |-> LowerChar(s[i])]

\* Python truthiness of a str-or-None value
Truthy(v) == v # None_ /\ v # s_empty

\* dict.get(key) / dict.get(key, default)
Get(d, key, default) == IF key \in DOMAIN d THEN d[key] ELSE default

RECURSIVE Join(_, _)
\* sep.join(parts)
Join(sep, parts) ==
    IF parts = <<>> THEN ""
    ELSE IF Len(parts) = 1 THEN parts[1]
    ELSE parts[1] \o sep \o Join(sep, Tail(parts))

\* ---------------------------------------------------- retrieve_from_kb
NoResultsText == "No relevant information found in Knowledge Base."
ConfigMissingText == "Knowledge Base configuration missing."
KBErrorPrefix == "Error querying Knowledge Base: "
NumberOfResults == 5

\* the condition under which a value becomes a filter
Meaningful(v) == Truthy(v) /\ Lower(v) # s_none

EqualsFilter(key, value) == [equals |-> [key |-> key, value |-> value]]

\* filter_conditions, lines 54-68
FilterConditions(tier, intent) ==
    (IF Meaningful(tier) THEN <<EqualsFilter("tier", tier)>> ELSE <<>>)
    \o (IF Meaningful(intent) THEN <<EqualsFilter("intent", intent)>> ELSE <<>>)

\* retrieval_config, lines 47-76
RetrievalConfig(tier, intent) ==
    LET fc == FilterConditions(tier, intent)
        base == [numberOfResults |-> NumberOfResults]
    IN  [vectorSearchConfiguration |->
            IF fc = <<>> THEN base
            ELSE IF Len(fc) > 1 THEN [filter |-> [andAll |-> fc]] @@ base
            ELSE [filter |-> fc[1]] @@ base]

\* result.get("content", {}).get("text", "")
PassageText(result) == Get(Get(result, "content", <<>>), "text", "")

\* a wrong result formatting: the empty result set is joined like any other
FormatResults_joinOnly(results) == Join("\n\n", results)

\* lines 85-89: the texts joined by a blank line, or the fixed sentinel
FormatResults(results) ==
    IF results # <<>> THEN Join("\n\n", results) ELSE NoResultsText

\* a wrong gateway: the service fault is not caught
retrieve_from_kb_raising(query, tier, intent, agent, kbid, svc) ==
    IF ~agent \/ ~kbid
    THEN [raised |-> FALSE, ret |-> ConfigMissingText, requests |-> <<>>]
    ELSE LET req == [knowledgeBaseId |-> "KB_ID",
                     retrievalQuery |-> [text |-> query],
                     retrievalConfiguration |-> RetrievalConfig(tier, intent)]
         IN  IF svc.fault
             THEN [raised |-> TRUE, ret |-> svc.error, requests |-> <<req>>]
             ELSE LET rr == Get(svc.response, "retrievalResults", <<>>)
                      results == [i \in 1..Len(rr) |-> PassageText(rr[i])]
                  IN  [raised |-> FALSE, ret |-> FormatResults(results),
                       requests |-> <<req>>]

\* retrieve_from_kb(query, tier, intent), lines 37-92.  agent and kbid tell
\* whether bedrock_agent_runtime and KB_ID are set; svc is what the search
\* service does with the request: a ClientError or a response dict.
\* The value has the returned text, the requests sent to the service, and
\* whether an exception left the function.
retrieve_from_kb(query, tier, intent, agent, kbid, svc) ==
    IF ~agent \/ ~kbid
    THEN [raised |-> FALSE, ret |-> ConfigMissingText, requests |-> <<>>]
    ELSE LET req == [knowledgeBaseId |-> "KB_ID",
                     retrievalQuery |-> [text |-> query],
                     retrievalConfiguration |-> RetrievalConfig(tier, intent)]
         IN  IF svc.fault
             THEN [raised |-> FALSE, ret |-> KBErrorPrefix \o svc.error,
                   requests |-> <<req>>]
             ELSE LET rr == Get(svc.response, "retrievalResults", <<>>)
                      results == [i \in 1..Len(rr) |-> PassageText(rr[i])]
                  IN  [raised |-> FALSE, ret |-> FormatResults(results),
                       requests |-> <<req>>]

\* ------------------------------------------------ inputs of the gateway
SeqsUpTo(S, n) == UNION {[1..k -> S] : k \in 0..n}

ClientErrors == {"ThrottlingException", "AccessDeniedException"}

Passages == {[content |-> [text |-> "a"]], [content |-> [text |-> "b"]],
             [content |-> [text |-> ""]], [content |-> [type |-> "TEXT"]],
             [score |-> 1]}

\* what bedrock_agent_runtime.retrieve can do
SearchOutcomes(P) ==
    {[fault |-> TRUE, error |-> e, response |-> <<>>] : e \in ClientErrors}
    \cup {[fault |-> FALSE, error |-> "",
           response |-> [retrievalResults |-> rs]] : rs \in SeqsUpTo(P, MaxPassages)}
    \cup {[fault |-> FALSE, error |-> "", response |-> [ResponseMetadata |-> 1]]}

TierValues == {None_, s_none, s_None, s_NONE, s_Level2, s_empty}
IntentValues == {None_, s_none, s_None, s_Technical, s_empty}

\* ------------------------------------------------- chat_with_bedrock
SearchTool == "search_knowledge_base"
NotInitializedText == "AWS Bedrock client not initialized."
ChatErrorPrefix == "Error processing request: "
UserInput == "How do I control access?"

\* a wrong tool test: every requested tool is dispatched to the gateway
IsSearchTool_any(tool_name) == TRUE

\* line 152
IsSearchTool(tool_name) == tool_name = SearchTool

\* a wrong argument extraction: tier and intent are exchanged
ToolArgs_swapped(tool_input) ==
    [query |-> Get(tool_input, "query", None_),
     tier |-> Get(tool_input, "intent", None_),
     intent |-> Get(tool_input, "tier", None_)]

\* lines 153-156: query, inferred_tier, inferred_intent
ToolArgs(tool_input) ==
    [query |-> Get(tool_input, "query", None_),
     tier |-> Get(tool_input, "tier", None_),
     intent |-> Get(tool_input, "intent", None_)]

\* tool_result_message, lines 162-172
ToolResultMessage(tool_use_id, tool_result) ==
    [role |-> "user",
     content |-> <<[toolResult |->
                      [toolUseId |-> tool_use_id,
                       content |-> <<[json |-> [result |-> tool_result]]>>]]>>]

\* line 127
UserMessage(text) == [role |-> "user", content |-> <<[text |-> text]>>]

Running == [kind |-> "running", final_answer |-> "", inferred_tier |-> None_,
            inferred_intent |-> None_, exc |-> ""]

\* a return statement of chat_with_bedrock
Return(answer, tier, intent) ==
    [kind |-> "return", final_answer |-> answer, inferred_tier |-> tier,
     inferred_intent |-> intent, exc |-> ""]

\* an exception that no handler of chat_with_bedrock catches
Raise(exc) ==
    [kind |-> "raise", final_answer |-> "", inferred_tier |-> None_,
     inferred_intent |-> None_, exc |-> exc]

\* a wrong handler: the filters inferred so far are returned with the error
OnClientError_keepFilters(e, tier, intent) == Return(ChatErrorPrefix \o e, tier, intent)

\* lines 186-187; tier and intent are the locals inferred_tier and
\* inferred_intent as they stand when the handler runs
OnClientError(e, tier, intent) == Return(ChatErrorPrefix \o e, None_, None_)

\* a wrong loop exit: the second call may be made before the scan has ended
ScanFinished_early(message, i) == TRUE

\* lines 145-146: the for loop over output_message['content'] has ended
ScanFinished(message, i) ==
    IF "content" \in DOMAIN message THEN i > Len(message.content) ELSE TRUE

\* line 183, final_response['output']['message']['content'][0]['text']
FinalText(message) ==
    IF "content" \notin DOMAIN message THEN Raise("KeyError")
    ELSE IF message.content = <<>> THEN Raise("IndexError")
    ELSE IF "text" \notin DOMAIN message.content[1] THEN Raise("KeyError")
    ELSE Return(message.content[1].text, None_, None_)

\* --------------------------------------------- inputs of the orchestrator
ChatErrors == {"ThrottlingException"}
ToolUseIds == {"tooluse_1", "tooluse_2"}
ToolInputs == {[query |-> s_q1, tier |-> s_Level2, intent |-> s_policy],
               [query |-> s_q2, tier |-> s_None, intent |-> s_none],
               [query |-> s_q1]}
ToolUseBlock(name, id, input) ==
    [toolUse |-> [name |-> name, toolUseId |-> id, input |-> input]]
FirstBlocks ==
    {[text |-> "I will search."]}
    \cup {ToolUseBlock(SearchTool, id, in) : id \in ToolUseIds, in \in ToolInputs}
    \cup {ToolUseBlock("other_tool", id, [x |-> s_q1]) : id \in ToolUseIds}
FinalBlocks ==
    {[text |-> "answer"], [text |-> "more"],
     ToolUseBlock(SearchTool, "tooluse_3", [query |-> s_q1])}
OrchPassages == {[content |-> [text |-> "a"]]}

\* what bedrock_runtime.converse can do: a ClientError or a response message
ChatOutcomes(B, n) ==
    {[fault |-> TRUE, error |-> e, message |-> <<>>] : e \in ChatErrors}
    \cup {[fault |-> FALSE, error |-> "",
           message |-> [role |-> "assistant", content |-> c]] : c \in SeqsUpTo(B, n)}
    \cup {[fault |-> FALSE, error |-> "", message |-> [role |-> "assistant"]]}

NoMessage == [role |-> "none"]

VARIABLES
    pc,                \* position in chat_with_bedrock
    messages,          \* the conversation
    output_message,    \* the first model response
    final_message,     \* the second model response
    inferred_tier, inferred_intent,
    block_i,           \* index of the content block the for loop is at
    calls,             \* the external calls made so far, in order
    ret,               \* how chat_with_bedrock ended
    df_practices, df_objectives,   \* the loaded tables
    ui_pc,
    selected_index,        \* the option of "Select Practice" the user picked
    selected_practice_str, \* what the selectbox returned
    practice_uuid,
    filtered_objectives,
    bedrock_clients,   \* get_bedrock_clients() gave the two clients (else None, None)
    KB_ID,             \* BEDROCK_KB_ID is set
    kb_pc, kb_args, kb_svc, kb_out

kbvars == <<kb_pc, kb_args, kb_svc, kb_out>>
orchvars == <<pc, messages, output_message, final_message, inferred_tier,
              inferred_intent, block_i, calls, ret>>
uivars == <<df_practices, df_objectives, ui_pc, selected_index,
            selected_practice_str, practice_uuid, filtered_objectives>>
vars == <<bedrock_clients, KB_ID, kbvars, orchvars, uivars>>

NoOut == [raised |-> FALSE, ret |-> "", requests |-> <<>>]
NoSvc == [fault |-> FALSE, error |-> "", response |-> <<>>]
NoArgs == [query |-> None_, tier |-> None_, intent |-> None_]

OrchIdle ==
    /\ pc = "idle" /\ messages = <<>> /\ output_message = NoMessage
    /\ final_message = NoMessage /\ inferred_tier = None_ /\ inferred_intent = None_
    /\ block_i = 0 /\ calls = <<>> /\ ret = Running

UIIdle ==
    /\ df_practices = <<>> /\ df_objectives = <<>> /\ ui_pc = "idle"
    /\ selected_index = 0 /\ selected_practice_str = "" /\ practice_uuid = ""
    /\ filtered_objectives = <<>>

KBIdle == kb_pc = "idle" /\ kb_args = NoArgs /\ kb_svc = NoSvc /\ kb_out = NoOut

\* ---------------------------------- specification of one gateway call
InitKB ==
    /\ bedrock_clients \in BOOLEAN
    /\ KB_ID \in BOOLEAN
    /\ kb_pc = "called"
    /\ kb_args \in [query : {s_q1}, tier : TierValues, intent : IntentValues]
    /\ kb_svc = NoSvc
    /\ kb_out = NoOut
    /\ OrchIdle
    /\ UIIdle

RetrieveFromKb ==
    /\ kb_pc = "called"
    /\ \E svc \in SearchOutcomes(Passages) :
        /\ kb_svc' = svc
        /\ kb_out' = retrieve_from_kb(kb_args.query, kb_args.tier, kb_args.intent,
                                      bedrock_clients, KB_ID, svc)
    /\ kb_pc' = "returned"
    /\ UNCHANGED <<bedrock_clients, KB_ID, kb_args, orchvars, uivars>>

NextKB == RetrieveFromKb

SpecKB == InitKB /\ [][NextKB]_vars

\* -------------------------- specification of one run of chat_with_bedrock
Init ==
    /\ bedrock_clients \in BOOLEAN
    /\ KB_ID \in BOOLEAN
    /\ pc = "start"
    /\ messages = <<>>
    /\ output_message = NoMessage
    /\ final_message = NoMessage
    /\ inferred_tier = None_
    /\ inferred_intent = None_
    /\ block_i = 0
    /\ calls = <<>>
    /\ ret = Running
    /\ KBIdle
    /\ UIIdle

ConverseCall(msgs, fault) == [op |-> "converse", messages |-> msgs, fault |-> fault]
\* fault: the search service was called and raised the ClientError error
GatewayCall(args, id, out, svc) ==
    [op |-> "retrieve_from_kb", query |-> args.query, tier |-> args.tier,
     intent |-> args.intent, toolUseId |-> id, out |-> out,
     fault |-> (out.requests # <<>> /\ svc.fault),
     error |-> IF out.requests # <<>> /\ svc.fault THEN svc.error ELSE ""]

\* lines 98-99
ClientMissing ==
    /\ pc = "start"
    /\ ~bedrock_clients
    /\ ret' = Return(NotInitializedText, None_, None_)
    /\ pc' = "done"
    /\ UNCHANGED <<bedrock_clients, KB_ID, kbvars, uivars, messages, output_message,
                   final_message, inferred_tier, inferred_intent, block_i, calls>>

\* lines 127-142: the first model call
FirstModelTurn ==
    /\ pc = "start"
    /\ bedrock_clients
    /\ \E o \in ChatOutcomes(FirstBlocks, MaxBlocks) :
        LET msgs == <<UserMessage(UserInput)>> IN
        /\ calls' = Append(calls, ConverseCall(msgs, o.fault))
        /\ IF o.fault
           THEN /\ messages' = msgs
                /\ ret' = OnClientError(o.error, inferred_tier, inferred_intent)
                /\ pc' = "done"
                /\ UNCHANGED <<output_message, block_i>>
           ELSE /\ messages' = Append(msgs, o.message)
                /\ output_message' = o.message
                /\ block_i' = 1
                /\ pc' = "scan"
                /\ UNCHANGED ret
    /\ UNCHANGED <<bedrock_clients, KB_ID, kbvars, uivars, final_message, inferred_tier,
                   inferred_intent>>

\* lines 146-173: one iteration of the for loop over the content blocks
ToolDispatch ==
    /\ pc = "scan"
    /\ ~ScanFinished(output_message, block_i)
    /\ LET content_block == output_message.content[block_i] IN
       IF "toolUse" \in DOMAIN content_block
          /\ IsSearchTool(content_block.toolUse.name)
       THEN \E svc \in SearchOutcomes(OrchPassages) :
            LET tool_use == content_block.toolUse
                args == ToolArgs(tool_use.input)
                out == retrieve_from_kb(args.query, args.tier, args.intent,
                                        bedrock_clients, KB_ID, svc)
            IN  /\ inferred_tier' = args.tier
                /\ inferred_intent' = args.intent
                /\ calls' = Append(calls, GatewayCall(args, tool_use.toolUseId, out, svc))
                /\ IF out.raised
                   THEN /\ ret' = OnClientError(out.ret, args.tier, args.intent)
                        /\ pc' = "done"
                        /\ UNCHANGED <<messages, block_i>>
                   ELSE /\ messages' = Append(messages,
                                ToolResultMessage(tool_use.toolUseId, out.ret))
                        /\ block_i' = block_i + 1
                        /\ UNCHANGED <<ret, pc>>
       ELSE /\ block_i' = block_i + 1
            /\ UNCHANGED <<messages, inferred_tier, inferred_intent, calls, ret, pc>>
    /\ UNCHANGED <<bedrock_clients, KB_ID, kbvars, uivars, output_message, final_message>>

\* lines 175-187: the second model call and the return
SecondModelTurn ==
    /\ pc = "scan"
    /\ ScanFinished(output_message, block_i)
    /\ \E o \in ChatOutcomes(FinalBlocks, MaxFinalBlocks) :
        /\ calls' = Append(calls, ConverseCall(messages, o.fault))
        /\ IF o.fault
           THEN /\ ret' = OnClientError(o.error, inferred_tier, inferred_intent)
                /\ UNCHANGED final_message
           ELSE /\ final_message' = o.message
                /\ ret' = LET t == FinalText(o.message) IN
                          IF t.kind = "return"
                          THEN Return(t.final_answer, inferred_tier, inferred_intent)
                          ELSE t
    /\ pc' = "done"
    /\ UNCHANGED <<bedrock_clients, KB_ID, kbvars, uivars, messages, output_message,
                   inferred_tier, inferred_intent, block_i>>

Next == ClientMissing \/ FirstModelTurn \/ ToolDispatch \/ SecondModelTurn

Spec == Init /\ [][Next]_vars

\* ------------------------------------ practice and objective selection
\* lines 238-240 and 249: f"{x['practice_id']} - {x['title']}"
PracticeLabel(x) == x.practice_id \o " - " \o x.title

\* practice_options, lines 238-240
PracticeOptions(practices) == [i \in 1..Len(practices) |-> PracticeLabel(practices[i])]

\* lines 248-250: the first row whose label is the selected string
SelectedPracticeRow(practices, str) ==
    practices[CHOOSE i \in 1..Len(practices) :
                /\ PracticeLabel(practices[i]) = str
                /\ \A j \in 1..(i - 1) : PracticeLabel(practices[j]) # str]

\* line 256: df_objectives[df_objectives['practice_id'] == practice_uuid]
FilterObjectives(objectives, uuid) ==
    LET keep(o) == o.practice_id = uuid IN SelectSeq(objectives, keep)

PracticeUuids == {"uuid-1", "uuid-2", "uuid-3"}
PracticeCodes == {"AC.L2-3.1.1", "AC.L2-3.1.2"}
PracticeTitles == {"Limit access", "Limit transactions"}
PracticeRows == [id : PracticeUuids, practice_id : PracticeCodes, title : PracticeTitles]
ObjectiveRows == [practice_id : PracticeUuids, objective_code : {"[a]", "[b]"},
                  objective_text : {"is identified"}]

\* Practice.id is a unique identifier
UniqueIds(practices) ==
    \A i, j \in 1..Len(practices) : practices[i].id = practices[j].id => i = j

\* the tables after load_data(), both non-empty (line 234)
InitUI ==
    /\ df_practices \in {p \in SeqsUpTo(PracticeRows, MaxPractices) :
                            p # <<>> /\ UniqueIds(p)}
    /\ df_objectives \in SeqsUpTo(ObjectiveRows, MaxObjectives) \ {<<>>}
    /\ ui_pc = "loaded"
    /\ selected_index = 0
    /\ selected_practice_str = ""
    /\ practice_uuid = ""
    /\ filtered_objectives = <<>>
    /\ bedrock_clients = TRUE
    /\ KB_ID = TRUE
    /\ KBIdle
    /\ OrchIdle

\* lines 242-256: the user picks an option and the script runs
SelectPractice ==
    /\ ui_pc \in {"loaded", "rendered"}
    /\ \E i \in 1..Len(df_practices) :
        LET str == PracticeOptions(df_practices)[i]
            row == SelectedPracticeRow(df_practices, str)
        IN  /\ selected_index' = i
            /\ selected_practice_str' = str
            /\ practice_uuid' = row.id
            /\ filtered_objectives' = FilterObjectives(df_objectives, row.id)
    /\ ui_pc' = "rendered"
    /\ UNCHANGED <<bedrock_clients, KB_ID, kbvars, orchvars, df_practices, df_objectives>>

NextUI == SelectPractice

SpecUI == InitUI /\ [][NextUI]_vars

\* ======================================================== properties
IsMatch(b) == IF "toolUse" \in DOMAIN b THEN b.toolUse.name = "search_knowledge_base" ELSE FALSE
IsText(b) == "text" \in DOMAIN b
ContentOf(m) == IF "content" \in DOMAIN m THEN m.content ELSE <<>>
MatchingRequests(m) == SelectSeq(ContentOf(m), IsMatch)
IsGateway(c) == c.op = "retrieve_from_kb"
IsConverse(c) == c.op = "converse"
GatewayCalls == SelectSeq(calls, IsGateway)
ConverseCalls == SelectSeq(calls, IsConverse)
IsToolResultTurn(t) == \E k \in 1..Len(ContentOf(t)) : "toolResult" \in DOMAIN t.content[k]
ToolResultTurns(msgs) == SelectSeq(msgs, IsToolResultTurn)
ResultIdOf(t) == t.content[1].toolResult.toolUseId
ResultTextOf(t) == t.content[1].toolResult.content[1].json.result
FirstResponseReceived == output_message # NoMessage
FullInput(in) == {"query", "tier", "intent"} \subseteq DOMAIN in

\* C1: when the first response holds one request for search_knowledge_base
\* with the arguments query, tier and intent, the run calls retrieve_from_kb
\* exactly once, with those three values, and the conversation sent with the
\* second model call holds exactly one tool-result turn, which carries the
\* toolUseId of the request.
C1_ToolCallDispatched ==
    (FirstResponseReceived /\ Len(MatchingRequests(output_message)) = 1
        /\ FullInput(MatchingRequests(output_message)[1].toolUse.input))
    => LET r == MatchingRequests(output_message)[1].toolUse
           g == GatewayCalls
       IN  /\ Len(g) <= 1
           /\ Len(ConverseCalls) = 2 =>
                LET tr == ToolResultTurns(ConverseCalls[2].messages) IN
                /\ Len(g) = 1
                /\ g[1].query = r.input.query
                /\ g[1].tier = r.input.tier
                /\ g[1].intent = r.input.intent
                /\ Len(tr) = 1
                /\ ResultIdOf(tr[1]) = r.toolUseId
                /\ ToolResultTurns(messages) = tr

C1_Witness ==
    /\ pc = "done" /\ ret.kind = "return" /\ Len(ConverseCalls) = 2
    /\ Len(ContentOf(output_message)) = 2
    /\ Len(MatchingRequests(output_message)) = 1
    /\ Len(GatewayCalls) = 1
    /\ GatewayCalls[1].tier = s_Level2 /\ GatewayCalls[1].intent = s_policy
    /\ GatewayCalls[1].query = s_q1
    /\ ResultIdOf(messages[3]) = "tooluse_2"

\* C2: when the first response holds no request for search_knowledge_base,
\* retrieve_from_kb is never called, no tool-result turn is in the
\* conversation, and a returned triple has inferred_tier and inferred_intent
\* None.
C2_NoToolNoRetrieval ==
    (FirstResponseReceived /\ MatchingRequests(output_message) = <<>>)
    => /\ GatewayCalls = <<>>
       /\ ToolResultTurns(messages) = <<>>
       /\ ret.kind = "return" =>
            ret.inferred_tier = None_ /\ ret.inferred_intent = None_

C2_Witness ==
    /\ pc = "done" /\ ret.kind = "return" /\ ret.final_answer = "answer"
    /\ FirstResponseReceived /\ MatchingRequests(output_message) = <<>>
    /\ \E k \in 1..Len(ContentOf(output_message)) :
          "toolUse" \in DOMAIN output_message.content[k]
    /\ calls # <<>> /\ GatewayCalls = <<>>

C7_OnlyFirstDispatched ==
    /\ Len(GatewayCalls) <= 1
    /\ Len(ToolResultTurns(messages)) <= 1
    /\ (ret.kind = "return" /\ final_message # NoMessage
          /\ MatchingRequests(output_message) # <<>>)
       => LET in == MatchingRequests(output_message)[1].toolUse.input IN
          /\ ret.inferred_tier = Get(in, "tier", None_)
          /\ ret.inferred_intent = Get(in, "intent", None_)

\* C8 as stated: when the second response has a text block, the run returns
\* the text of its first text block.
C8_FirstTextBlock ==
    (final_message # NoMessage /\ SelectSeq(ContentOf(final_message), IsText) # <<>>)
    => /\ ret.kind = "return"
       /\ ret.final_answer = SelectSeq(ContentOf(final_message), IsText)[1].text

C10_CallOrder ==
    /\ Len(ConverseCalls) <= 2
    /\ calls # <<>> => IsConverse(calls[1]) /\ Len(calls[1].messages) = 1
    /\ \A i \in 1..Len(calls) :
         /\ (IsConverse(calls[i]) /\ i > 1) => i = Len(calls)
         /\ (IsConverse(calls[i]) /\ calls[i].fault) => i = Len(calls)
         /\ IsGateway(calls[i]) => ~calls[1].fault
    /\ Len(ConverseCalls) = 2 =>
         LET m == ConverseCalls[2].messages
             req == MatchingRequests(output_message)
         IN  /\ FirstResponseReceived
             /\ Len(m) = 2 + Len(req)
             /\ m[1] = calls[1].messages[1]
             /\ m[2] = output_message
             /\ Len(GatewayCalls) = Len(req)
             /\ \A k \in 1..Len(req) :
                  /\ IsToolResultTurn(m[2 + k])
                  /\ ResultIdOf(m[2 + k]) = req[k].toolUse.toolUseId
    /\ (pc = "done" /\ calls # <<>>) => messages = calls[Len(calls)].messages

C10_Witness ==
    /\ pc = "done" /\ Len(calls) = 4
    /\ IsConverse(calls[1]) /\ IsGateway(calls[2]) /\ IsGateway(calls[3])
    /\ IsConverse(calls[4]) /\ Len(calls[4].messages) = 4

\* ---------------------------------------------------- gateway properties
ClaimTiers == {None_, s_none, s_None, s_Level2}
ClaimIntents == {None_, s_none, s_Technical}
SentConfig == kb_out.requests[1].retrievalConfiguration.vectorSearchConfiguration
TierEquals == [equals |-> [key |-> "tier", value |-> s_Level2]]
IntentEquals == [equals |-> [key |-> "intent", value |-> s_Technical]]

\* C4: for tier in {None, "none", "None", "Level 2"} and intent in {None,
\* "none", "Technical"} the request sent to the search service has no filter
\* when neither value is meaningful, the one equality filter when one is, and
\* andAll of the two equality filters when both are; no request has a filter
\* whose value is "none" in any letter case.
C4_FilterExpression ==
    (kb_pc = "returned" /\ kb_out.requests # <<>>)
    => /\ Len(kb_out.requests) = 1
       /\ (kb_args.tier \in ClaimTiers /\ kb_args.intent \in ClaimIntents) =>
            LET t == kb_args.tier = s_Level2
                n == kb_args.intent = s_Technical
            IN  /\ (~t /\ ~n) => DOMAIN SentConfig = {"numberOfResults"}
                /\ (t /\ ~n) => (SentConfig.filter = TierEquals)
                /\ (~t /\ n) => (SentConfig.filter = IntentEquals)
                /\ (t /\ n) => (SentConfig.filter = [andAll |-> <<TierEquals, IntentEquals>>])
       /\ "filter" \in DOMAIN SentConfig =>
            LET fs == IF "andAll" \in DOMAIN SentConfig.filter
                      THEN SentConfig.filter.andAll ELSE <<SentConfig.filter>>
            IN  \A k \in 1..Len(fs) : fs[k].equals.value \notin {s_none, s_None, s_NONE}

C4_Witness ==
    /\ kb_pc = "returned" /\ kb_out.requests # <<>>
    /\ kb_args.tier = s_None /\ kb_args.intent = s_Technical
    /\ SentConfig.filter = IntentEquals

\* C5: when the search service returns no passage, retrieve_from_kb returns
\* "No relevant information found in Knowledge Base." and not the empty text.
C5_NoResultsSentinel ==
    (kb_pc = "returned" /\ kb_out.requests # <<>> /\ ~kb_svc.fault
        /\ Get(kb_svc.response, "retrievalResults", <<>>) = <<>>)
    => /\ kb_out.ret = "No relevant information found in Knowledge Base."
       /\ kb_out.ret # ""
       /\ ~kb_out.raised

C5_Witness ==
    /\ kb_pc = "returned" /\ kb_out.requests # <<>> /\ ~kb_svc.fault
    /\ "retrievalResults" \in DOMAIN kb_svc.response
    /\ kb_svc.response.retrievalResults = <<>>
    /\ kb_out.ret = "No relevant information found in Knowledge Base."

\* ---------------------------------------------------- selection property
\* C6 as stated: selecting a practice yields exactly the objectives whose
\* practice_id is the id of the practice that was selected.
C6_ObjectivesOfSelected ==
    ui_pc = "rendered"
    => LET mine(o) == o.practice_id = df_practices[selected_index].id
       IN  filtered_objectives = SelectSeq(df_objectives, mine)

====
